---- MODULE Spec2Model ----
(***************************************************************************)
(* Tier-list collage generator (app/controller/image_generator_controller) *)
(* and its caller (app/view/site_routes): the per-namespace disk cache,    *)
(* fetch_cover, the bucketing and tile loop of generate_collage, and the   *)
(* /generate-rank-image route.                                             *)
(*                                                                         *)
(* Specifications:                                                         *)
(*   Spec       one worker serving requests one after another              *)
(*   SpecConc   two threads calling fetch_cover concurrently               *)
(*   SpecBucket the bucketing of generate_collage on drawn inputs          *)
(*   SpecPath   _ns_dir / _cache_path on drawn inputs                      *)
(***************************************************************************)
EXTENDS Integers, Sequences, FiniteSets, TLC

VARIABLES
    dirs,      \* namespace directories that exist under cache_root
    files,     \* path -> [ex: the file exists, data: its content, a sequence of chunks]
    writer,    \* history: path -> caller whose request last opened it for writing
    pc,        \* worker -> position in the code
    req,       \* worker -> the request / call being served
    order,     \* worker -> item ids still to render, in render order
    tiles,     \* worker -> tiles pasted so far, <<item id, kind>>
    fc,        \* worker -> locals of the running fetch_cover call
    prev,      \* history: worker -> the previous finished fetch_cover call
    outcome,   \* worker -> how the last request / call ended
    nreq,      \* worker -> requests / calls started so far
    bk,        \* SpecBucket: the input ranks and the buckets computed
    pl,        \* SpecPath: log of the _cache_path calls made
    netlog,    \* history: worker -> urls requested with GET in its current request
    lay,       \* SpecLayout: the locals of the drawing loop of generate_collage
    fm,        \* SpecForm: the submitted form and the ranks extracted from it
    fb,        \* SpecFallback: an item without cover and the text drawn on its tile
    au         \* SpecAuth: the sign-in service, its session files and its call history

\* the variables of SpecLayout, SpecForm, SpecFallback and SpecAuth
side == <<lay, fm, fb, au>>

vars == <<dirs, files, writer, pc, req, order, tiles, fc, prev, outcome, nreq,
          bk, pl, netlog, side>>

(***************************************************************************)
(* Bounds                                                                  *)
(***************************************************************************)
MaxItems == 2        \* keys of ranks in one request (Spec)
MaxRequests == 2     \* requests one worker serves (Spec)
MaxFetches == 1      \* fetch_cover calls of one thread (SpecConc)
MaxBucketItems == 3  \* keys of ranks (SpecBucket)
MaxTiles == 13       \* items of one tier (SpecLayout)
MaxFormKeys == 3     \* fields of one submitted form (SpecForm)
MaxTitleWords == 4   \* words of one title (SpecFallback)
MaxAuthCalls == 4    \* calls of the sign-in service (SpecAuth)

Null == "None"
NoUrl == "NoUrl"
Raised == "Raised"

Procs == {"w1", "w2"}
Ids == {"b1", "b2", "b3", "b4"}
Callers == {"alice", "bob"}

(***************************************************************************)
(* Strings as the code sees them: a rank value is a sequence of            *)
(* characters, so that upper() is computed character by character.         *)
(***************************************************************************)
UpperChar(c) ==
    CASE c = "s" -> "S"
      [] c = "a" -> "A"
      [] c = "d" -> "D"
      [] c = "n" -> "N"
      [] c = "f" -> "F"
      [] c = "q" -> "Q"
      [] c = "i" -> "I"
      [] c = "t" -> "T"
      [] c = "p" -> "P"
      [] OTHER -> c

Upper(s) == [i \in 1..Len(s) |-> UpperChar(s[i])]

\* the keys of TIERS, in display order
TIERS == << <<"S">>, <<"A">>, <<"B">>, <<"C">>, <<"D">>, <<"F">>,
            <<"D", "N", "F">>, <<"I", "T", "P">> >>

TierKeys == {TIERS[i] : i \in 1..Len(TIERS)}

\* (tier or ""): None and the empty string both give ""
OrEmpty(tier) == IF tier = Null THEN <<>> ELSE tier

MutBucketOf(tier) ==
    LET t == OrEmpty(tier)
    IN  IF t \in TierKeys THEN t ELSE <<"F">>

\* t = (tier or "").upper();  t if t in buckets else "F"
BucketOf(tier) ==
    LET t == Upper(OrEmpty(tier))
    IN  IF t \in TierKeys THEN t ELSE <<"F">>

\* ranks is a dict: a sequence of <<book_id, tier>> with distinct ids, in
\* iteration order.  The loop appends each id to its bucket.
RECURSIVE BucketLoop(_, _)
BucketLoop(ranks, buckets) ==
    IF ranks = <<>> THEN buckets
    ELSE LET book_id == Head(ranks)[1]
             k == BucketOf(Head(ranks)[2])
         IN  BucketLoop(Tail(ranks), [buckets EXCEPT ![k] = Append(@, book_id)])

MakeBuckets(ranks) == BucketLoop(ranks, [k \in TierKeys |-> <<>>])

\* the ids in the order the tier loop renders them
RECURSIVE RenderOrderFrom(_, _)
RenderOrderFrom(buckets, i) ==
    IF i > Len(TIERS) THEN <<>>
    ELSE buckets[TIERS[i]] \o RenderOrderFrom(buckets, i + 1)

RenderOrder(ranks) == RenderOrderFrom(MakeBuckets(ranks), 1)

Keys(ranks) == {ranks[i][1] : i \in 1..Len(ranks)}

DictsOver(vals, n) ==
    UNION {{r \in [1..k -> Ids \X vals] :
              \A i, j \in 1..k : i # j => r[i][1] # r[j][1]} : k \in 0..n}

(***************************************************************************)
(* SHA-256 prefixes of the strings the model uses (hashlib values).        *)
(***************************************************************************)
Url1 == "http://img/1.jpg"
Url2 == "http://img/2.jpg"
Urls == {Url1, Url2}

Namespaces == {Null, "", "alice", "bob"}

\* hashlib.sha256(s.encode("utf-8")).hexdigest()[:16]
Sha256Hex16(s) ==
    CASE s = "" -> "e3b0c44298fc1c14"
      [] s = "alice" -> "2bd806c97f0e00af"
      [] s = "bob" -> "81b637d8fcd2c6da"

\* hashlib.sha256(url.encode("utf-8")).hexdigest()[:32]
Sha256Hex32(s) ==
    CASE s = Url1 -> "fd885c0bc5966d2d4b2d147522d92e24"
      [] s = Url2 -> "3f1f0e4de7ca0879209403b284a315fb"

\* `not namespace` is true of None and of the empty string
Falsy(s) == s = Null \/ s = ""

MutNsDirName(namespace) == "shared"

\* the directory name _ns_dir chooses under cache_root
NsDirName(namespace) ==
    IF Falsy(namespace) THEN "shared" ELSE Sha256Hex16(namespace)

\* os.path.join(self._ns_dir(namespace), f"{h}.jpg")
CachePathOf(url, namespace) ==
    <<NsDirName(namespace), Sha256Hex32(url), ".jpg">>

AllPaths == {CachePathOf(u, n) : u \in Urls, n \in Namespaces}

(***************************************************************************)
(* Files, HTTP responses and decoding.  A file's content and a response    *)
(* body are sequences of chunks; a body decodes iff it is a whole image.   *)
(***************************************************************************)
ImgA == <<"a1", "a2">>     \* a cover image, two chunks long
ImgB == <<"b1">>           \* another cover image, one chunk long
Junk == <<"x1">>           \* a 2xx response that is no image (an HTML page)
Hole == "00"               \* bytes the OS fills in when writing past the end

ValidBodies == {ImgA, ImgB}
Bodies == ValidBodies \cup {Junk}

ImageOf(body) == IF body = ImgA THEN "imgA" ELSE "imgB"

Absent == [ex |-> FALSE, data |-> <<>>]
FileOf(data) == [ex |-> TRUE, data |-> data]

IsPrefix(a, b) == Len(a) <= Len(b) /\ SubSeq(b, 1, Len(a)) = a

\* Image.open(...).convert("RGB") of a body: the image, or None when PIL raises
Decode(data) == IF data \in ValidBodies THEN ImageOf(data) ELSE Null

\* What decoding a cache file can give: a whole image decodes; an image
\* followed by foreign bytes may or may not; anything else does not.
DecodeOutcomes(data) ==
    IF data \in ValidBodies THEN {ImageOf(data)}
    ELSE {Null} \cup {ImageOf(b) : b \in {v \in ValidBodies : IsPrefix(v, data)}}

\* _open_rgb_copy_from_path: any exception (I/O error included) gives None
ReadOutcomes(file) ==
    {[im |-> Null, ioerr |-> TRUE]}
        \cup {[im |-> d, ioerr |-> FALSE] : d \in DecodeOutcomes(file.data)}

\* write(2) of one chunk at offset i-1 of a file
PutChunk(data, i, c) ==
    IF i <= Len(data) THEN [data EXCEPT ![i] = c]
    ELSE data \o [k \in 1..(i - 1 - Len(data)) |-> Hole] \o <<c>>

(***************************************************************************)
(* Requests                                                                *)
(***************************************************************************)
MainTierVals == {<<"s">>, <<"Q">>}
MainUrls == {Url1}
MainNamespaces == {Null}
ThreadNamespaces == {Null, "alice"}

\* item ids are opaque: the requests of Spec rank b1, b2, ... in that order
IdSeq == <<"b1", "b2", "b3", "b4">>
RankInputs ==
    UNION {{[i \in 1..k |-> <<IdSeq[i], t[i]>>] : t \in [1..k -> MainTierVals]} :
             k \in 0..MaxItems}
UrlMaps(ranks) == UNION {[S -> MainUrls] : S \in SUBSET Keys(ranks)}

\* urls.get(book_id)
UrlsGet(urls, book_id) == IF book_id \in DOMAIN urls THEN urls[book_id] ELSE NoUrl

NoReq == [entry |-> "none", caller |-> Null, ranks |-> <<>>, urls |-> <<>>,
          ns |-> Null]

FcIdle == [url |-> NoUrl, ns |-> Null, path |-> <<>>, body |-> <<>>, pos |-> 0,
           existed |-> FALSE, ioerr |-> FALSE, got |-> FALSE, ret |-> Null]

NoCall == [called |-> FALSE, call |-> FcIdle]

InCollage(p) == req[p].entry \in {"route", "direct"}

(***************************************************************************)
(* fetch_cover, one step per system call or library call                   *)
(***************************************************************************)
\* a fetch_cover without the `if not url` test
MutFcEnter(p, url, namespace) ==
    /\ fc' = [fc EXCEPT ![p] = [FcIdle EXCEPT !.url = url, !.ns = namespace]]
    /\ pc' = [pc EXCEPT ![p] = "fc_path"]

\* `if not url: return None`, else go on to _cache_path
FcEnter(p, url, namespace) ==
    /\ fc' = [fc EXCEPT ![p] = [FcIdle EXCEPT !.url = url, !.ns = namespace]]
    /\ pc' = [pc EXCEPT ![p] = IF url = NoUrl \/ url = "" THEN "fc_ret"
                                ELSE "fc_path"]

FcReturn(p, call) ==
    /\ fc' = [fc EXCEPT ![p] = call]
    /\ pc' = [pc EXCEPT ![p] = "fc_ret"]

\* path = self._cache_path(url, namespace): computes the path and makes the
\* namespace directory (os.makedirs, exist_ok=True); outside any try block,
\* so an OSError leaves fetch_cover.  The directory can fail to be made
\* (disk full, permissions) only while it does not exist yet.
FcPath(p) ==
    /\ pc[p] = "fc_path"
    /\ LET path == CachePathOf(fc[p].url, fc[p].ns)
       IN  \/ /\ dirs' = dirs \cup {path[1]}
              /\ fc' = [fc EXCEPT ![p].path = path]
              /\ pc' = [pc EXCEPT ![p] = "fc_exists"]
           \/ /\ path[1] \notin dirs
              /\ dirs' = dirs
              /\ fc' = [fc EXCEPT ![p].ret = Raised]
              /\ pc' = [pc EXCEPT ![p] = "fc_raised"]
    /\ UNCHANGED <<files, writer, req, order, tiles, prev, outcome, nreq, bk, pl, netlog, side>>

MutFcExists(p) ==
    /\ pc[p] = "fc_exists"
    /\ pc' = [pc EXCEPT ![p] = "fc_get"]
    /\ fc' = [fc EXCEPT ![p].existed = files[fc[p].path].ex]
    /\ UNCHANGED <<dirs, files, writer, req, order, tiles, prev, outcome, nreq, bk, pl, netlog, side>>

\* if os.path.exists(path)
FcExists(p) ==
    /\ pc[p] = "fc_exists"
    /\ pc' = [pc EXCEPT ![p] = IF files[fc[p].path].ex THEN "fc_read" ELSE "fc_get"]
    /\ fc' = [fc EXCEPT ![p].existed = files[fc[p].path].ex]
    /\ UNCHANGED <<dirs, files, writer, req, order, tiles, prev, outcome, nreq, bk, pl, netlog, side>>

MutFcRead(p) ==
    /\ pc[p] = "fc_read"
    /\ \E r \in ReadOutcomes(files[fc[p].path]) :
         /\ fc' = [fc EXCEPT ![p].ioerr = r.ioerr]
         /\ pc' = [pc EXCEPT ![p] = "fc_get"]
    /\ UNCHANGED <<dirs, files, writer, req, order, tiles, prev, outcome, nreq,
                   bk, pl, netlog, side>>

\* a fetch_cover that gives up when the cache file does not decode
MutFcReadFatal(p) ==
    /\ pc[p] = "fc_read"
    /\ \E r \in ReadOutcomes(files[fc[p].path]) :
         FcReturn(p, [fc[p] EXCEPT !.ret = r.im, !.ioerr = r.ioerr])
    /\ UNCHANGED <<dirs, files, writer, req, order, tiles, prev, outcome, nreq,
                   bk, pl, netlog, side>>

\* im = self._open_rgb_copy_from_path(path); if im is not None: return im
FcRead(p) ==
    /\ pc[p] = "fc_read"
    /\ \E r \in ReadOutcomes(files[fc[p].path]) :
         IF r.im # Null
         THEN FcReturn(p, [fc[p] EXCEPT !.ret = r.im])
         ELSE /\ fc' = [fc EXCEPT ![p].ioerr = r.ioerr]
              /\ pc' = [pc EXCEPT ![p] = "fc_get"]
    /\ UNCHANGED <<dirs, files, writer, req, order, tiles, prev, outcome, nreq, bk, pl, netlog, side>>

\* r = requests.get(url, timeout=timeout); r.raise_for_status()
FcGet(p) ==
    /\ pc[p] = "fc_get"
    /\ \/ FcReturn(p, [fc[p] EXCEPT !.got = TRUE, !.ret = Null])
       \/ \E b \in Bodies :
            /\ fc' = [fc EXCEPT ![p].got = TRUE, ![p].body = b]
            /\ pc' = [pc EXCEPT ![p] = "fc_open"]
    /\ netlog' = [netlog EXCEPT ![p] = Append(@, fc[p].url)]
    /\ UNCHANGED <<dirs, files, writer, req, order, tiles, prev, outcome, nreq, bk, pl,
                   side>>

\* with open(path, "wb") as f: creates or truncates the file
FcOpen(p) ==
    /\ pc[p] = "fc_open"
    /\ \/ /\ FcReturn(p, [fc[p] EXCEPT !.ret = Null])
          /\ UNCHANGED <<files, writer>>
       \/ /\ files' = [files EXCEPT ![fc[p].path] = FileOf(<<>>)]
          /\ writer' = [writer EXCEPT ![fc[p].path] = req[p].caller]
          /\ fc' = [fc EXCEPT ![p].pos = 0]
          /\ pc' = [pc EXCEPT ![p] = "fc_write"]
    /\ UNCHANGED <<dirs, req, order, tiles, prev, outcome, nreq, bk, pl, netlog, side>>

\* f.write(r.content) and the close of the with block: the chunks go to the
\* file at this descriptor's own offset; a failed write leaves what was written
FcWrite(p) ==
    /\ pc[p] = "fc_write"
    /\ \/ /\ fc[p].pos < Len(fc[p].body)
          /\ files' = [files EXCEPT ![fc[p].path] =
                         FileOf(PutChunk(@.data, fc[p].pos + 1,
                                         fc[p].body[fc[p].pos + 1]))]
          /\ fc' = [fc EXCEPT ![p].pos = @ + 1]
          /\ pc' = pc
       \/ /\ fc[p].pos < Len(fc[p].body)
          /\ FcReturn(p, [fc[p] EXCEPT !.ret = Null])
          /\ files' = files
       \/ /\ fc[p].pos = Len(fc[p].body)
          /\ pc' = [pc EXCEPT ![p] = "fc_decode"]
          /\ UNCHANGED <<files, fc>>
    /\ UNCHANGED <<dirs, writer, req, order, tiles, prev, outcome, nreq, bk, pl, netlog, side>>

\* with Image.open(BytesIO(r.content)) as im: return im.convert("RGB").copy()
\* (except Exception: return None)
FcDecode(p) ==
    /\ pc[p] = "fc_decode"
    /\ FcReturn(p, [fc[p] EXCEPT !.ret = Decode(fc[p].body)])
    /\ UNCHANGED <<dirs, files, writer, req, order, tiles, prev, outcome, nreq, bk, pl, netlog, side>>

FetchCover(p) ==
    \/ FcPath(p)
    \/ FcExists(p)
    \/ FcRead(p)
    \/ FcGet(p)
    \/ FcOpen(p)
    \/ FcWrite(p)
    \/ FcDecode(p)

(***************************************************************************)
(* generate_collage and the /generate-rank-image route                     *)
(***************************************************************************)
\* generate_collage(ranks, urls, titles, cache_namespace): the buckets are
\* built from whatever ranks holds, an empty dict included
GcEnter(p, r) ==
    /\ req' = [req EXCEPT ![p] = r]
    /\ order' = [order EXCEPT ![p] = RenderOrder(r.ranks)]
    /\ tiles' = [tiles EXCEPT ![p] = <<>>]
    /\ outcome' = [outcome EXCEPT ![p] = "running"]
    /\ pc' = [pc EXCEPT ![p] = "gc_loop"]

\* POST /generate-rank-image: abort(400) without ranks, else
\* controller.generate_collage(ranks, urls, titles), no cache_namespace given
RouteRequest(p) ==
    /\ pc[p] = "idle"
    /\ nreq[p] < MaxRequests
    /\ nreq' = [nreq EXCEPT ![p] = @ + 1]
    /\ \E caller \in Callers, ranks \in RankInputs :
         \E urls \in UrlMaps(ranks) :
           LET r == [entry |-> "route", caller |-> caller, ranks |-> ranks,
                     urls |-> urls, ns |-> Null]
           IN  IF ranks = <<>>
               THEN /\ req' = [req EXCEPT ![p] = r]
                    /\ outcome' = [outcome EXCEPT ![p] = "400"]
                    /\ pc' = [pc EXCEPT ![p] = "done"]
                    /\ UNCHANGED <<order, tiles>>
               ELSE GcEnter(p, r)
    /\ UNCHANGED <<dirs, files, writer, fc, prev, bk, pl, netlog, side>>

\* a caller of the controller's API: generate_collage with any arguments
DirectCall(p) ==
    /\ pc[p] = "idle"
    /\ nreq[p] < MaxRequests
    /\ nreq' = [nreq EXCEPT ![p] = @ + 1]
    /\ \E ns \in MainNamespaces, ranks \in RankInputs :
         \E urls \in UrlMaps(ranks) :
           GcEnter(p, [entry |-> "direct", caller |-> "api", ranks |-> ranks,
                       urls |-> urls, ns |-> ns])
    /\ UNCHANGED <<dirs, files, writer, fc, prev, bk, pl, netlog, side>>

\* for book_id in buckets[tier_key]: cover = self.fetch_cover(urls.get(book_id), ...)
GcTile(p) ==
    /\ pc[p] = "gc_loop"
    /\ InCollage(p)
    /\ order[p] # <<>>
    /\ FcEnter(p, UrlsGet(req[p].urls, Head(order[p])), req[p].ns)
    /\ UNCHANGED <<dirs, files, writer, req, order, tiles, prev, outcome, nreq, bk, pl, netlog, side>>

\* cover is None -> the fallback block, else the scaled cover; img.paste(tile)
GcPaste(p) ==
    /\ pc[p] = "fc_ret"
    /\ InCollage(p)
    /\ tiles' = [tiles EXCEPT ![p] =
                   Append(@, <<Head(order[p]),
                               IF fc[p].ret = Null THEN "fallback" ELSE "cover">>)]
    /\ order' = [order EXCEPT ![p] = Tail(@)]
    /\ prev' = [prev EXCEPT ![p] = [called |-> TRUE, call |-> fc[p]]]
    /\ fc' = [fc EXCEPT ![p] = FcIdle]
    /\ pc' = [pc EXCEPT ![p] = "gc_loop"]
    /\ UNCHANGED <<dirs, files, writer, req, outcome, nreq, bk, pl, netlog, side>>

\* an exception leaving fetch_cover leaves generate_collage too; in the route
\* it becomes the 500 response
GcRaise(p) ==
    /\ pc[p] = "fc_raised"
    /\ InCollage(p)
    /\ outcome' = [outcome EXCEPT ![p] =
                     IF req[p].entry = "route" THEN "500" ELSE "raised"]
    /\ pc' = [pc EXCEPT ![p] = "done"]
    /\ UNCHANGED <<dirs, files, writer, req, order, tiles, fc, prev, nreq, bk, pl, netlog, side>>

\* img.save(buf, format="PNG"); return buf
GcEncode(p) ==
    /\ pc[p] = "gc_loop"
    /\ InCollage(p)
    /\ order[p] = <<>>
    /\ IF req[p].entry = "route"
       THEN /\ pc' = [pc EXCEPT ![p] = "route_zip"]
            /\ outcome' = outcome
       ELSE /\ pc' = [pc EXCEPT ![p] = "done"]
            /\ outcome' = [outcome EXCEPT ![p] = "png"]
    /\ UNCHANGED <<dirs, files, writer, req, order, tiles, fc, prev, nreq, bk, pl, netlog, side>>

\* the route writes the ZIP package (outcome 200 stands for it) and renders
\* the reward page
RouteZip(p) ==
    /\ pc[p] = "route_zip"
    /\ outcome' = [outcome EXCEPT ![p] = "200"]
    /\ pc' = [pc EXCEPT ![p] = "done"]
    /\ UNCHANGED <<dirs, files, writer, req, order, tiles, fc, prev, nreq, bk, pl, netlog, side>>

\* the response is sent and the worker is free again; its locals are gone
WorkerFree(p) ==
    /\ pc[p] = "done"
    /\ pc' = [pc EXCEPT ![p] = "idle"]
    /\ req' = [req EXCEPT ![p] = NoReq]
    /\ order' = [order EXCEPT ![p] = <<>>]
    /\ tiles' = [tiles EXCEPT ![p] = <<>>]
    /\ fc' = [fc EXCEPT ![p] = FcIdle]
    /\ prev' = [prev EXCEPT ![p] = NoCall]
    /\ outcome' = [outcome EXCEPT ![p] = "none"]
    /\ netlog' = [netlog EXCEPT ![p] = <<>>]
    /\ UNCHANGED <<dirs, files, writer, nreq, bk, pl, side>>

(***************************************************************************)
(* Threads that call fetch_cover directly (SpecConc)                       *)
(***************************************************************************)
ThreadFetch(p) ==
    /\ pc[p] = "idle"
    /\ nreq[p] < MaxFetches
    /\ nreq' = [nreq EXCEPT ![p] = @ + 1]
    /\ \E url \in MainUrls \cup {NoUrl, ""}, ns \in ThreadNamespaces :
         /\ req' = [req EXCEPT ![p] = [NoReq EXCEPT !.entry = "fetch", !.caller = p]]
         /\ FcEnter(p, url, ns)
    /\ outcome' = [outcome EXCEPT ![p] = "running"]
    /\ netlog' = [netlog EXCEPT ![p] = <<>>]
    /\ UNCHANGED <<dirs, files, writer, order, tiles, prev, bk, pl, side>>

ThreadReturn(p) ==
    /\ pc[p] \in {"fc_ret", "fc_raised"}
    /\ req[p].entry = "fetch"
    /\ outcome' = [outcome EXCEPT ![p] = fc[p].ret]
    /\ pc' = [pc EXCEPT ![p] = "idle"]
    /\ UNCHANGED <<dirs, files, writer, req, order, tiles, fc, prev, nreq, bk, pl, netlog, side>>

(***************************************************************************)
(* Specifications                                                          *)
(***************************************************************************)
InitCache ==
    /\ dirs = {}
    /\ files = [path \in AllPaths |-> Absent]
    /\ writer = [path \in AllPaths |-> Null]
    /\ pc = [p \in Procs |-> "idle"]
    /\ req = [p \in Procs |-> NoReq]
    /\ order = [p \in Procs |-> <<>>]
    /\ tiles = [p \in Procs |-> <<>>]
    /\ fc = [p \in Procs |-> FcIdle]
    /\ prev = [p \in Procs |-> NoCall]
    /\ outcome = [p \in Procs |-> "none"]
    /\ nreq = [p \in Procs |-> 0]
    /\ netlog = [p \in Procs |-> <<>>]

BkOff == [pc |-> "off", ranks |-> <<>>, buckets |-> <<>>]
Off == [pc |-> "off"]
LayOff == /\ lay = Off
FormOff == /\ fm = Off
FallbackOff == /\ fb = Off
AuthOff == /\ au = Off
SideOff == LayOff /\ FormOff /\ FallbackOff /\ AuthOff

Init ==
    /\ InitCache
    /\ bk = BkOff
    /\ pl = {}
    /\ SideOff

Worker(p) ==
    \/ RouteRequest(p)
    \/ DirectCall(p)
    \/ GcTile(p)
    \/ FetchCover(p)
    \/ GcPaste(p)
    \/ GcRaise(p)
    \/ GcEncode(p)
    \/ RouteZip(p)
    \/ WorkerFree(p)

Next == Worker("w1")

Spec == Init /\ [][Next]_vars

Thread(p) ==
    \/ ThreadFetch(p)
    \/ FetchCover(p)
    \/ ThreadReturn(p)

NextConc == \E p \in Procs : Thread(p)

SpecConc == Init /\ [][NextConc]_vars

(***************************************************************************)
(* SpecBucket: the bucketing loop of generate_collage on drawn ranks       *)
(***************************************************************************)
BucketTierVals == {Null, <<>>, <<"s">>, <<"S">>, <<"Q">>, <<"a">>,
                   <<"d", "n", "f">>, <<"I", "t", "p">>}

BucketInputs == DictsOver(BucketTierVals, MaxBucketItems)

InitBucket ==
    /\ InitCache
    /\ pl = {}
    /\ SideOff
    /\ \E r \in BucketInputs :
         bk = [pc |-> "start", ranks |-> r, buckets |-> [k \in TierKeys |-> <<>>]]

\* buckets = {key: [] ...}; for book_id, tier in ranks.items(): ...append(book_id)
BucketAll ==
    /\ bk.pc = "start"
    /\ bk' = [bk EXCEPT !.pc = "done", !.buckets = MakeBuckets(bk.ranks)]
    /\ UNCHANGED <<dirs, files, writer, pc, req, order, tiles, fc, prev, outcome,
                   nreq, pl, netlog, side>>

NextBucket == BucketAll

SpecBucket == InitBucket /\ [][NextBucket]_vars

(***************************************************************************)
(* SpecPath: _cache_path (and the _ns_dir it calls) on drawn arguments     *)
(***************************************************************************)
\* returns the path after os.makedirs(ns_dir, exist_ok=True), or raises OSError
CachePathCall ==
    \E url \in Urls, ns \in Namespaces :
      LET path == CachePathOf(url, ns)
      IN  \/ /\ dirs' = dirs \cup {path[1]}
             /\ pl' = pl \cup {[url |-> url, ns |-> ns, raised |-> FALSE,
                                path |-> path]}
          \/ /\ path[1] \notin dirs
             /\ dirs' = dirs
             /\ pl' = pl \cup {[url |-> url, ns |-> ns, raised |-> TRUE,
                                path |-> <<>>]}

NextPath == CachePathCall /\ UNCHANGED <<files, writer, pc, req, order, tiles, fc,
                                          prev, outcome, nreq, bk, netlog, side>>

SpecPath == Init /\ [][NextPath]_vars

(***************************************************************************)
(* Claims                                                                  *)
(***************************************************************************)
CollageRunning(p) == InCollage(p) /\ outcome[p] # "400"

\* C1: fetch_cover returns an image or None and never raises to its caller,
\* whatever the outcome of creating the cache directory, reading or writing
\* the cache file, the GET and the decoding.
C1_FetchCoverNeverRaises ==
    \A p \in Procs : pc[p] # "fc_raised" /\ fc[p].ret # Raised

\* C2: with non-empty ranks generate_collage completes for every combination
\* of fetch outcomes and has then pasted exactly one tile per key of ranks,
\* a cover where fetch_cover gave an image and a fallback where it gave None.
C2_CollageCompletesOneTilePerKey ==
    \A p \in Procs :
      (CollageRunning(p) /\ req[p].ranks # <<>>) =>
        /\ outcome[p] \notin {"raised", "500"}
        /\ pc[p] # "fc_raised"
        /\ (pc[p] \in {"route_zip", "done"} =>
              /\ Len(tiles[p]) = Len(req[p].ranks)
              /\ {tiles[p][i][1] : i \in 1..Len(tiles[p])} = Keys(req[p].ranks))

\* Two fetch_cover calls in sequence for the same url and namespace, the
\* first one finding no cache file: the second has just returned.
SecondOfTwo(p) ==
    /\ pc[p] = "fc_ret"
    /\ prev[p].called
    /\ fc[p].url # NoUrl
    /\ prev[p].call.url = fc[p].url
    /\ prev[p].call.ns = fc[p].ns
    /\ ~prev[p].call.existed

OneGetInTotal(p) ==
    /\ prev[p].call.got
    /\ ~fc[p].got
    /\ fc[p].ret = prev[p].call.ret
    /\ fc[p].ret # Null

\* C3 (as claimed): fetching the same URL twice in sequence under the same
\* namespace issues exactly one GET in total, the second call is a cache hit
\* and both return the same decoded image.
C3_SecondFetchIsCacheHit ==
    \A p \in Procs : SecondOfTwo(p) => OneGetInTotal(p)

\* C3 (amended): the same, provided the first call returned an image (its GET
\* succeeded, the response was written to the cache and decoded) and the
\* second call's read of the cache file met no I/O error.
C3_SecondFetchIsCacheHitAfterSuccess ==
    \A p \in Procs :
      (SecondOfTwo(p) /\ prev[p].call.ret # Null /\ ~fc[p].ioerr) => OneGetInTotal(p)

C3_Witness ==
    \E p \in Procs :
      SecondOfTwo(p) /\ prev[p].call.ret # Null /\ ~fc[p].ioerr /\ fc[p].existed

\* C4: with empty ranks generate_collage signals an error to its caller
\* instead of returning an image.
C4_EmptyRanksSignalsError ==
    \A p \in Procs :
      (CollageRunning(p) /\ req[p].ranks = <<>>) =>
        /\ outcome[p] \notin {"png", "200"}
        /\ pc[p] # "route_zip"

\* C5 (as claimed): once the cache file of a (namespace, url) pair has been
\* written, no later fetch_cover call changes its bytes or removes it: a call
\* that found the file present leaves it as it is.
C5_CacheEntryImmutable ==
    [][\A p \in Procs :
         fc[p].existed => files'[fc[p].path] = files[fc[p].path]]_vars

\* C5 (amended): no call removes a cache file, and a call that found the file
\* present changes it only by overwriting it with the response of its own
\* successful GET, which it issues only when the file held no decodable image
\* or could not be read.
C5_CacheEntryOverwrittenOnlyAfterFailedRead ==
    [][/\ \A path \in AllPaths : files[path].ex => files'[path].ex
       /\ \A p \in Procs :
            (fc[p].existed /\ files'[fc[p].path] # files[fc[p].path]) =>
              /\ fc[p].got
              /\ pc[p] \in {"fc_open", "fc_write"}
              /\ (pc[p] = "fc_open" =>
                    (fc[p].ioerr \/ files[fc[p].path].data \notin ValidBodies))]_vars

C5_Witness ==
    \E p \in Procs :
      /\ pc[p] = "fc_write"
      /\ fc[p].existed
      /\ fc[p].ioerr
      /\ fc[p].pos = Len(fc[p].body)
      /\ prev[p].called
      /\ prev[p].call.ret # Null
      /\ prev[p].call.body # fc[p].body
      /\ prev[p].call.path = fc[p].path

\* a thread whose fetch_cover call got a response and wrote all of it
WroteAll(p) ==
    /\ pc[p] = "idle"
    /\ nreq[p] > 0
    /\ fc[p].got
    /\ fc[p].body # <<>>
    /\ fc[p].pos = Len(fc[p].body)

\* C6: when two requests fetch the same URL under the same namespace
\* concurrently and both have written their responses and finished, the cache
\* file holds exactly the bytes of one of the two responses, never a mixture
\* or a truncation.
C6_ConcurrentWritesLeaveOneResponse ==
    \A p, q \in Procs :
      (p # q /\ WroteAll(p) /\ WroteAll(q) /\ fc[p].path = fc[q].path) =>
        files[fc[p].path].data \in {fc[p].body, fc[q].body}

Range(seq) == {seq[i] : i \in 1..Len(seq)}

Occurrences(buckets, id) ==
    Cardinality(UNION {{<<k, i>> : i \in {j \in 1..Len(buckets[k]) :
                                             buckets[k][j] = id}} :
                         k \in TierKeys})

PositionIn(seq, id) == CHOOSE i \in 1..Len(seq) : seq[i] = id

\* C7: the buckets partition the keys of ranks: every itemId is in exactly
\* one bucket, once; the bucket is the tier whose key is the uppercased rank
\* value if that is a tier key and F otherwise ('s' and 'S' go to S, 'Q' to
\* F); within a bucket the ids keep the iteration order of ranks.
C7_BucketsPartitionRanks ==
    bk.pc = "done" =>
      LET ranks == bk.ranks
          buckets == bk.buckets
      IN  /\ DOMAIN buckets = TierKeys
          /\ \A k \in TierKeys : Range(buckets[k]) \subseteq Keys(ranks)
          /\ \A i \in 1..Len(ranks) :
               LET id == ranks[i][1]
                   tier == OrEmpty(ranks[i][2])
                   t == Upper(tier)
                   home == IF t \in TierKeys THEN t ELSE <<"F">>
               IN  /\ Occurrences(buckets, id) = 1
                   /\ id \in Range(buckets[home])
                   /\ tier \in {<<"s">>, <<"S">>} => id \in Range(buckets[<<"S">>])
                   /\ tier = <<"Q">> => id \in Range(buckets[<<"F">>])
                   /\ \A j \in 1..Len(ranks) :
                        (i < j /\ ranks[j][1] \in Range(buckets[home])) =>
                          PositionIn(buckets[home], id)
                            < PositionIn(buckets[home], ranks[j][1])

C7_Witness ==
    /\ bk.pc = "done"
    /\ \E i, j, k \in 1..Len(bk.ranks) :
         /\ i < j
         /\ OrEmpty(bk.ranks[i][2]) = <<"s">>
         /\ OrEmpty(bk.ranks[j][2]) = <<"S">>
         /\ OrEmpty(bk.ranks[k][2]) = <<"Q">>
         /\ Len(bk.buckets[<<"S">>]) = 2
         /\ Len(bk.buckets[<<"F">>]) = 1

\* C8: covers fetched while serving /generate-rank-image are cached per
\* caller: a cover served from the cache to one caller's request was never
\* written by another caller's request.
C8_CacheHitServesOwnCaller ==
    \A p \in Procs :
      (/\ req[p].entry = "route"
       /\ pc[p] = "fc_ret"
       /\ fc[p].existed
       /\ ~fc[p].got
       /\ fc[p].ret # Null
       /\ writer[fc[p].path] \in Callers) => writer[fc[p].path] = req[p].caller

Returned == {e \in pl : ~e.raised}

\* C9: for one URL, two different non-null namespaces whose truncated digests
\* differ get two distinct paths, with different directories and the same
\* file name; and a fixed (url, namespace) gets the same path on every call.
C9_NamespacesGetDistinctPaths ==
    \A e1, e2 \in Returned :
      /\ (/\ e1.url = e2.url
          /\ e1.ns # e2.ns
          /\ e1.ns # Null
          /\ e2.ns # Null
          /\ Sha256Hex16(e1.ns) # Sha256Hex16(e2.ns)) =>
            /\ e1.path # e2.path
            /\ e1.path[1] # e2.path[1]
            /\ e1.path[2] = e2.path[2]
      /\ (e1.url = e2.url /\ e1.ns = e2.ns) => e1.path = e2.path

C9_Witness ==
    \E e1, e2, e3 \in Returned :
      /\ e1.url = e2.url
      /\ e3.url = e1.url
      /\ e1.ns = "alice"
      /\ e2.ns = "bob"
      /\ e3.ns = ""
      /\ e1.path[1] \in dirs
      /\ e2.path[1] \in dirs

\* C10: the cache subdirectory is 'shared' exactly when the namespace is
\* null; for every non-null namespace, the empty string included, it is the
\* first 16 hex characters of the SHA-256 digest of the namespace.
C10_SharedExactlyForNull ==
    \A e \in Returned :
      /\ (e.path[1] = "shared") <=> (e.ns = Null)
      /\ e.ns # Null => e.path[1] = Sha256Hex16(e.ns)

(***************************************************************************)
(* Network requests of one generate_collage request                        *)
(***************************************************************************)
Count(s, x) == Cardinality({i \in 1..Len(s) : s[i] = x})

\* C11: within one generate_collage request each cover url is requested from
\* the network at most once, whether the GET succeeds or fails, also when
\* several items of ranks carry that url.
C11_EachUrlRequestedOnce ==
    \A p \in Procs : InCollage(p) =>
      \A u \in Urls : Count(netlog[p], u) <= 1

(***************************************************************************)
(* A cache file that does not decode                                       *)
(***************************************************************************)
\* the response of the call's GET went whole into the cache file
StoredAll(p) ==
    fc[p].got /\ fc[p].body # <<>> /\ fc[p].pos = Len(fc[p].body)

\* C16: a fetch_cover call that found its cache file but could not decode it
\* goes on as on a miss: it never raises, it returns None only after issuing
\* the GET, and when the GET succeeded and the response was stored it has
\* overwritten the cache file with the response bytes and returns the image
\* decoded from those bytes (an image whenever the response is one).
C16_CorruptEntryIsRefetched ==
    \A p \in Procs : fc[p].existed =>
      /\ pc[p] # "fc_raised"
      /\ pc[p] = "fc_ret" =>
           /\ fc[p].ret = Null => fc[p].got
           /\ StoredAll(p) =>
                /\ files[fc[p].path] = FileOf(fc[p].body)
                /\ fc[p].ret = Decode(fc[p].body)
                /\ fc[p].body \in ValidBodies => fc[p].ret = ImageOf(fc[p].body)

\* a call found an undecodable cache file, fetched an image and returns it
C16_Witness ==
    \E p \in Procs :
      /\ pc[p] = "fc_ret"
      /\ fc[p].existed
      /\ StoredAll(p)
      /\ fc[p].body = ImgA
      /\ fc[p].ret = "imgA"
      /\ files[fc[p].path] = FileOf(ImgA)
      /\ prev[p].called /\ prev[p].call.body = Junk

(***************************************************************************)
(* fetch_cover without a url, and the namespace directories                *)
(***************************************************************************)
\* this step is p's call of fetch_cover
EntersFetch(p) == pc[p] \in {"idle", "gc_loop"} /\ pc'[p] \in {"fc_ret", "fc_path"}

\* C14: a fetch_cover call with a None or empty url returns None at once and
\* touches nothing (no directory made, no file written, no GET); a namespace
\* directory is made only by a fetch of a non-empty url under that namespace
\* while it does not exist yet, and making it again changes nothing.
C14_NoUrlNoEffect ==
    [][\A p \in Procs :
         /\ (EntersFetch(p) /\ fc'[p].url \in {NoUrl, ""}) =>
              /\ pc'[p] = "fc_ret"
              /\ fc'[p].ret = Null /\ ~fc'[p].got /\ fc'[p].path = <<>>
              /\ dirs' = dirs /\ files' = files /\ writer' = writer
              /\ netlog'[p] = <<>>
         /\ (pc[p] = "fc_path" /\ pc'[p] # pc[p]) =>
              /\ fc[p].url \notin {NoUrl, ""}
              /\ dirs' \in {dirs, dirs \cup {NsDirName(fc[p].ns)}}
              /\ NsDirName(fc[p].ns) \in dirs =>
                   dirs' = dirs /\ pc'[p] = "fc_exists"
         /\ (pc[p] # "fc_path" /\ pc'[p] # pc[p]) => dirs' = dirs]_vars

\* a call without url has returned and the only directory is the one of the
\* namespace another call fetched a url under
C14_Witness ==
    \E p, q \in Procs :
      /\ pc[q] = "fc_ret" /\ fc[q].url = "" /\ fc[q].ns = Null
      /\ pc[p] = "fc_ret" /\ fc[p].url = Url1 /\ fc[p].ns = "alice"
      /\ dirs = {Sha256Hex16("alice")}

(***************************************************************************)
(* SpecLayout: the canvas and the drawing loop of generate_collage on      *)
(* drawn bucket sizes and cover sizes                                      *)
(***************************************************************************)
CANVAS_W == 1920
MARGIN == 24
ROW_GAP == 16
LABEL_W == 220
TILE_H == 180
TILE_GAP == 10

Max(a, b) == IF a >= b THEN a ELSE b

\* int(TILE_H * 0.66)
w_guess == (TILE_H * 66) \div 100

\* usable_w = CANVAS_W - 2 * MARGIN - LABEL_W
usable_w == CANVAS_W - 2 * MARGIN - LABEL_W

\* an estimate that forgets the gap between tiles
Mut_per_row == Max(1, usable_w \div w_guess)

\* approx_tile_w = int(TILE_H * 0.66) + TILE_GAP; per_row = max(1, usable_w // approx_tile_w)
per_row == Max(1, usable_w \div (w_guess + TILE_GAP))

\* a row_height that counts a gap below the last row
Mut_row_height(n_tiles) ==
    IF n_tiles = 0 THEN TILE_H
    ELSE ((n_tiles + per_row - 1) \div per_row) * (TILE_H + TILE_GAP)

row_height(n_tiles) ==
    IF n_tiles = 0 THEN TILE_H
    ELSE LET rows == (n_tiles + per_row - 1) \div per_row
         IN  rows * (TILE_H + TILE_GAP) - TILE_GAP

RECURSIVE SumRows(_, _)
\* sum(row_height(len(buckets[tier])) + ROW_GAP for tier, *_ in TIERS), from tier i on
SumRows(sizes, i) ==
    IF i > Len(TIERS) THEN 0
    ELSE row_height(sizes[i]) + ROW_GAP + SumRows(sizes, i + 1)

total_h(sizes) == 2 * MARGIN + SumRows(sizes, 1) - ROW_GAP

\* x0 = MARGIN + LABEL_W + TILE_GAP
x0 == MARGIN + LABEL_W + TILE_GAP

\* the covers a request's urls can give, as (width, height) in pixels
CoverSizes == {<<1, 1000>>, <<1514, 180>>, <<2000, 180>>}

\* scale = TILE_H / float(h); max(1, int(w * scale))
ScaledWidth(size) == Max(1, (size[1] * TILE_H) \div size[2])

NoTile == [n |-> 0, x |-> 0, y |-> 0, w |-> 0, wrapped |-> FALSE]
NoBand == [lo |-> 0, hi |-> 0]
NoEval == [n |-> 0, h |-> 0, done |-> FALSE]

\* bucket sizes of the eight tiers: without covers any mix of empty, single
\* and full tiers; with covers the first or the last tier, of any size
LayoutInputs ==
    {[sizes |-> sz, covers |-> {}] : sz \in [1..Len(TIERS) -> {0, 1, MaxTiles}]}
      \cup {[sizes |-> [i \in 1..Len(TIERS) |-> IF i = t THEN n ELSE 0],
              covers |-> CoverSizes] : t \in {1, Len(TIERS)}, n \in 0..MaxTiles}

InitLayout ==
    /\ InitCache
    /\ bk = BkOff
    /\ pl = {}
    /\ FormOff /\ FallbackOff /\ AuthOff
    /\ \E in \in LayoutInputs :
         lay = [pc |-> "start", sizes |-> in.sizes, covers |-> in.covers,
                total_h |-> 0, ti |-> 1, y |-> 0, x |-> 0, row_y |-> 0,
                count |-> 0, last |-> NoTile, before |-> NoTile,
                band |-> NoBand, rh |-> NoEval, allfb |-> TRUE]

LayRest == <<dirs, files, writer, pc, req, order, tiles, fc, prev, outcome, nreq,
             bk, pl, netlog, fm, fb, au>>

\* total_h = ...; img = Image.new("RGB", (CANVAS_W, total_h)); y = MARGIN
LayCanvas ==
    /\ lay.pc = "start"
    /\ lay' = [lay EXCEPT !.pc = "tier", !.total_h = total_h(lay.sizes),
                          !.y = MARGIN]
    /\ UNCHANGED LayRest

\* for tier_key, label, color in TIERS: the label block, then
\* x, row_y = x0, y and count = 0
LayTier ==
    /\ lay.pc = "tier"
    /\ lay' = [lay EXCEPT !.pc = "tiles", !.x = x0, !.row_y = lay.y, !.count = 0,
                          !.last = NoTile, !.before = NoTile]
    /\ UNCHANGED LayRest

\* the widths the next tile can have: the fallback block when fetch_cover
\* gives None, else the cover scaled to the tile height
TileWidths == {w_guess} \cup {ScaledWidth(c) : c \in lay.covers}

\* a renderer that wraps before the first tile of a tier as well
MutLayTile ==
    /\ lay.pc = "tiles"
    /\ lay.count < lay.sizes[lay.ti]
    /\ \E w \in TileWidths :
         LET wrap == lay.x + w > CANVAS_W - MARGIN
             x    == IF wrap THEN x0 ELSE lay.x
             rowy == IF wrap THEN lay.row_y + TILE_H + TILE_GAP ELSE lay.row_y
         IN  lay' = [lay EXCEPT
                       !.last = [n |-> lay.count + 1, x |-> x, y |-> rowy, w |-> w,
                                 wrapped |-> wrap],
                       !.before = lay.last,
                       !.x = x + w + TILE_GAP, !.row_y = rowy,
                       !.count = lay.count + 1,
                       !.allfb = lay.allfb /\ w = w_guess]
    /\ UNCHANGED LayRest

\* one pass of `for book_id in buckets[tier_key]`: the tile, the wrap
\* (`if count and (x + tile.size[0] > CANVAS_W - MARGIN)`), img.paste(tile,
\* (x, row_y)), x += tile.size[0] + TILE_GAP, count += 1
LayTile ==
    /\ lay.pc = "tiles"
    /\ lay.count < lay.sizes[lay.ti]
    /\ \E w \in TileWidths :
         LET wrap == lay.count # 0 /\ lay.x + w > CANVAS_W - MARGIN
             x    == IF wrap THEN x0 ELSE lay.x
             rowy == IF wrap THEN lay.row_y + TILE_H + TILE_GAP ELSE lay.row_y
         IN  lay' = [lay EXCEPT
                       !.last = [n |-> lay.count + 1, x |-> x, y |-> rowy, w |-> w,
                                 wrapped |-> wrap],
                       !.before = lay.last,
                       !.x = x + w + TILE_GAP, !.row_y = rowy,
                       !.count = lay.count + 1,
                       !.allfb = lay.allfb /\ w = w_guess]
    /\ UNCHANGED LayRest

\* y += row_height(len(buckets[tier_key])) + ROW_GAP, and the next tier
LayTierEnd ==
    /\ lay.pc = "tiles"
    /\ lay.count = lay.sizes[lay.ti]
    /\ LET h == row_height(lay.sizes[lay.ti])
       IN  lay' = [lay EXCEPT
                     !.rh = [n |-> lay.sizes[lay.ti], h |-> h, done |-> TRUE],
                     !.band = [lo |-> lay.y, hi |-> lay.y + h],
                     !.y = lay.y + h + ROW_GAP,
                     !.ti = lay.ti + 1,
                     !.pc = IF lay.ti = Len(TIERS) THEN "encode" ELSE "tier"]
    /\ UNCHANGED LayRest

\* img.save(buf, format="PNG"); return buf
LayEncode ==
    /\ lay.pc = "encode"
    /\ lay' = [lay EXCEPT !.pc = "done"]
    /\ UNCHANGED LayRest

NextLayout == LayCanvas \/ LayTier \/ LayTile \/ LayTierEnd \/ LayEncode

SpecLayout == InitLayout /\ [][NextLayout]_vars

\* C12: row_height(0) is 180, and for N >= 1 row_height(N) is
\* rows * 190 - 10 with rows = ceil(N / 12); so it is at least 180 and does
\* not decrease with N (180 for N in 1..12, 370 for N = 13).
C12_RowHeightFormula ==
    lay.pc # "off" /\ lay.rh.done =>
      LET n == lay.rh.n
          h == lay.rh.h
          rows == CHOOSE r \in 0..n : r * 12 >= n /\ (r - 1) * 12 < n
      IN  /\ per_row = 12
          /\ n = 0 => h = 180
          /\ n >= 1 => h = rows * 190 - 10
          /\ h >= 180
          /\ h <= row_height(n + 1)
          /\ n \in 1..12 => h = 180
          /\ n = 13 => h = 370

\* row_height was evaluated for a tier of 13 items and gave 370
C12_Witness ==
    lay.pc # "off" /\ lay.rh.done /\ lay.rh.n = 13 /\ lay.rh.h = 370

\* C17: a tile that is not the first of its row ends at or before
\* CANVAS_W - MARGIN (1896) and stands at the previous tile's x plus its
\* width plus TILE_GAP in the same row; a wrap puts the tile at the row start
\* (254) exactly TILE_H + TILE_GAP (190) below the previous tile's row; the
\* row last started always holds the tile last pasted.
C17_WrappingKeepsRows ==
    lay.pc = "tiles" /\ lay.count > 0 =>
      LET t == lay.last
          b == lay.before
      IN  /\ t.n = lay.count /\ t.y = lay.row_y
          /\ t.n = 1 => t.x = 254 /\ t.y = lay.y /\ ~t.wrapped
          /\ t.n > 1 =>
               /\ b.n = t.n - 1
               /\ ~t.wrapped =>
                    /\ t.x + t.w <= 1896
                    /\ t.y = b.y
                    /\ t.x = b.x + b.w + 10
               /\ t.wrapped =>
                    /\ t.x = 254
                    /\ t.y = b.y + 190
                    /\ b.x + b.w + 10 + t.w > 1896

\* a tile wider than the canvas was pasted first in a row of its own after a
\* wrap, and the tile before it had followed another one in its row
C17_Witness ==
    /\ lay.pc = "tiles"
    /\ lay.last.wrapped /\ lay.last.w = 2000 /\ lay.last.n >= 3
    /\ ~lay.before.wrapped /\ lay.before.x > 254

\* C19: while every tile pasted has the fallback width 118, a tier of N >= 1
\* items is laid out in exactly ceil(N / 12) rows, every tile lies inside
\* its tier's band [y, y + row_height(N)] and inside the canvas, the band of
\* a tier starts below the band of the tier before it, and the canvas
\* height is 2*24 + the sum over the tiers of (row_height + 16) - 16.
C19_FallbackTilesStayInBand ==
    lay.pc # "off" /\ lay.allfb =>
      /\ (lay.pc = "tiles" /\ lay.count > 0) =>
           LET t == lay.last
               n == lay.sizes[lay.ti]
               rows == CHOOSE r \in 0..n : r * 12 >= n /\ (r - 1) * 12 < n
           IN  /\ t.w = 118
               /\ lay.y <= t.y /\ t.y + 180 <= lay.y + row_height(n)
               /\ 0 <= t.x /\ t.x + t.w <= 1920
               /\ 0 <= t.y /\ t.y + 180 <= lay.total_h
               /\ lay.count = n => (lay.row_y - lay.y) \div 190 + 1 = rows
      /\ (lay.pc \in {"tier", "tiles"} /\ lay.ti > 1) =>
           /\ lay.band.lo < lay.band.hi
           /\ lay.band.hi < lay.y
      /\ lay.pc \in {"encode", "done"} => lay.total_h = 2 * 24 + (lay.y - 24) - 16

\* the last of 13 fallback tiles of the second tier was wrapped into a second
\* row that ends where the tier's band ends, below a first tier of 13 tiles
C19_Witness ==
    /\ lay.pc = "tiles" /\ lay.allfb
    /\ lay.ti = 2 /\ lay.sizes[1] = 13 /\ lay.sizes[2] = 13
    /\ lay.count = 13 /\ lay.last.wrapped
    /\ lay.last.y + 180 = lay.y + 370
    /\ lay.band.hi = 24 + 370

(***************************************************************************)
(* SpecForm: extract_ranks on drawn forms.  A form is the sequence of its  *)
(* (key, value) fields in iteration order; a key is a sequence of tokens.  *)
(***************************************************************************)
FormKeys ==
    { <<"ranks", "[", "b1", "]">>,            \* ranks[b1]
      <<"ranks", ".", "b2">>,                 \* ranks.b2
      <<"ranks", ".", "b1">>,                 \* ranks.b1
      <<"ranks", "[", "B1", "]">>,            \* ranks[B1]
      <<"ranks", "[", "a", "]", "b", "]">>,   \* ranks[a]b]
      <<"ranks", "[", "]">>,                  \* ranks[]
      <<"ranks", "[", "b1">>,                 \* ranks[b1
      <<"x", "ranks", ".", "b2">>,            \* xranks.b2
      <<"other">> }

FormValues == {"", "S", "a"}

Forms ==
    UNION {{f \in [1..k -> FormKeys \X FormValues] :
              \A i, j \in 1..k : i # j => f[i][1] # f[j][1]} : k \in 0..MaxFormKeys}

NoMatch == [ok |-> FALSE, id |-> <<>>]

\* b = re.compile(r"^ranks\[(?P<id>.+?)\]$"): the shortest non-empty id after
\* which the key ends with "]"
MatchB(k) ==
    IF Len(k) >= 2 /\ k[1] = "ranks" /\ k[2] = "["
    THEN LET ends == {n \in 1..Len(k) : 2 + n + 1 = Len(k) /\ k[2 + n + 1] = "]"}
         IN  IF ends = {} THEN NoMatch
             ELSE LET n == CHOOSE m \in ends : \A o \in ends : m <= o
                  IN  [ok |-> TRUE, id |-> SubSeq(k, 3, 2 + n)]
    ELSE NoMatch

\* d = re.compile(r"^ranks\.(?P<id>.+)$")
MatchD(k) ==
    IF Len(k) >= 3 /\ k[1] = "ranks" /\ k[2] = "."
    THEN [ok |-> TRUE, id |-> SubSeq(k, 3, Len(k))]
    ELSE NoMatch

\* m = b.match(k) or d.match(k)
MatchKey(k) == IF MatchB(k).ok THEN MatchB(k) ELSE MatchD(k)

\* a dict that keeps the first value assigned to a key
MutDictSet(dict, key, value) ==
    IF key \in Keys(dict) THEN dict ELSE Append(dict, <<key, value>>)

\* dict[key] = value: a new key goes last, a known key keeps its place
DictSet(dict, key, value) ==
    IF key \in Keys(dict)
    THEN [i \in 1..Len(dict) |->
            IF dict[i][1] = key THEN <<key, value>> ELSE dict[i]]
    ELSE Append(dict, <<key, value>>)

RECURSIVE ExtractLoop(_, _, _)
\* for k, v in form.items(): m = ...; if m and v: ranks[m.group("id")] = str(v)
ExtractLoop(form, i, ranks) ==
    IF i > Len(form) THEN ranks
    ELSE LET k == form[i][1]
             v == form[i][2]
             m == MatchKey(k)
         IN  ExtractLoop(form, i + 1,
                         IF m.ok /\ v # "" THEN DictSet(ranks, m.id, v) ELSE ranks)

extract_ranks(form) == ExtractLoop(form, 1, <<>>)

InitForm ==
    /\ InitCache
    /\ bk = BkOff
    /\ pl = {}
    /\ LayOff /\ FallbackOff /\ AuthOff
    /\ \E f \in Forms : fm = [pc |-> "start", form |-> f, ranks |-> <<>>]

\* ranks = controller.extract_ranks(request.form)
ExtractRanks ==
    /\ fm.pc = "start"
    /\ fm' = [fm EXCEPT !.pc = "done", !.ranks = extract_ranks(fm.form)]
    /\ UNCHANGED <<dirs, files, writer, pc, req, order, tiles, fc, prev, outcome,
                   nreq, bk, pl, netlog, lay, fb, au>>

NextForm == ExtractRanks

SpecForm == InitForm /\ [][NextForm]_vars

\* the fields of the form whose key has the shape ranks[ID] or ranks.ID and
\* whose value is not empty, as <<position, ID, value>>
RankFields(form) ==
    UNION {LET k == form[i][1]
               v == form[i][2]
           IN  {<<i, id, v>> :
                  id \in {x \in {SubSeq(k, 3, n) : n \in 3..Len(k)} :
                            /\ v # ""
                            /\ \/ k = <<"ranks", "[">> \o x \o <<"]">>
                               \/ k = <<"ranks", ".">> \o x}} :
             i \in 1..Len(form)}

\* C13: extract_ranks returns exactly the entries {ID: value} of the form
\* keys of the shape ranks[ID] or ranks.ID whose value is not empty, with the
\* ID and the value unchanged; other keys and empty values give nothing.
C13_ExactlyTheRankFields ==
    fm.pc = "done" =>
      Range(fm.ranks) = {<<t[2], t[3]>> : t \in RankFields(fm.form)}

\* C13, amended: as C13, but when several such keys capture the same ID the
\* returned dict holds that ID once, with the value of the last of them in
\* the form's iteration order.
C13_LastRankFieldPerId ==
    fm.pc = "done" =>
      LET fields == RankFields(fm.form)
          last == {t \in fields : \A u \in fields : u[2] = t[2] => u[1] <= t[1]}
      IN  /\ Range(fm.ranks) = {<<t[2], t[3]>> : t \in last}
          /\ \A i, j \in 1..Len(fm.ranks) :
               i # j => fm.ranks[i][1] # fm.ranks[j][1]

\* ranks[b1] and ranks.b1 were both submitted, with different values, next to
\* a key of another shape: the result holds b1 once, with the later value
C13_Witness ==
    /\ fm.pc = "done"
    /\ Len(fm.form) = 3
    /\ fm.form[1] = << <<"ranks", "[", "b1", "]">>, "S" >>
    /\ fm.form[2] = << <<"other">>, "a" >>
    /\ fm.form[3] = << <<"ranks", ".", "b1">>, "a" >>
    /\ fm.ranks = << << <<"b1">>, "a" >> >>

(***************************************************************************)
(* SpecFallback: the fallback tile of generate_collage for one item        *)
(* without cover.  A text is a sequence of characters.                     *)
(***************************************************************************)
WordA == <<"T", "o">>
WordB == <<"c", "h", "a", "p", "t", "e", "r", "s">>
WordC == [i \in 1..40 |-> "x"]
TitleWords == {WordA, WordB, WordC}

RECURSIVE JoinWords(_)
\* the words with one space between them
JoinWords(words) ==
    IF words = <<>> THEN <<>>
    ELSE IF Len(words) = 1 THEN words[1]
    ELSE words[1] \o <<" ">> \o JoinWords(Tail(words))

\* the titles a form can carry for an item, the empty one included
Titles == {JoinWords(ws) : ws \in UNION {[1..k -> TitleWords] : k \in 0..MaxTitleWords}}

BookIdText == {<<"b", "1">>}

\* textwrap's chunks: the maximal runs of spaces and of other characters
SplitChunks(text) ==
    LET starts == {i \in 1..Len(text) :
                     i = 1 \/ ((text[i] = " ") # (text[i - 1] = " "))}
        start(k) == CHOOSE i \in starts : Cardinality({j \in starts : j <= i}) = k
        end(k) == IF k = Cardinality(starts) THEN Len(text) ELSE start(k + 1) - 1
    IN  [k \in 1..Cardinality(starts) |-> SubSeq(text, start(k), end(k))]

IsSpace(chunk) == chunk # <<>> /\ chunk[1] = " "

RECURSIVE FillLine(_, _, _)
\* while chunks: if cur_len + len(chunks[-1]) <= width: cur_line.append(chunks.pop())
FillLine(chunks, line, width) ==
    IF chunks # <<>> /\ Len(line) + Len(chunks[1]) <= width
    THEN FillLine(Tail(chunks), line \o chunks[1], width)
    ELSE [line |-> line, rest |-> chunks]

RECURSIVE WrapChunks(_, _, _)
\* TextWrapper._wrap_chunks with drop_whitespace and break_long_words
WrapChunks(chunks, lines, width) ==
    IF chunks = <<>> THEN lines
    ELSE LET c1 == IF lines # <<>> /\ IsSpace(chunks[1]) THEN Tail(chunks) ELSE chunks
             f  == FillLine(c1, <<>>, width)
             long == f.rest # <<>> /\ Len(f.rest[1]) > width
             room == width - Len(f.line)
             line2 == IF long THEN f.line \o SubSeq(f.rest[1], 1, room) ELSE f.line
             rest2 == IF long
                      THEN <<SubSeq(f.rest[1], room + 1, Len(f.rest[1]))>> \o Tail(f.rest)
                      ELSE f.rest
             n == Len(line2)
             line3 == IF n > 0 /\ line2[n] = " " /\ ~long
                      THEN SubSeq(line2, 1,
                                  CHOOSE j \in 0..n :
                                    /\ \A i \in (j + 1)..n : line2[i] = " "
                                    /\ (j = 0 \/ line2[j] # " "))
                      ELSE line2
         IN  WrapChunks(rest2, IF line3 = <<>> THEN lines ELSE Append(lines, line3),
                        width)

\* textwrap.wrap(text, width)
Wrap(text, width) == WrapChunks(SplitChunks(text), <<>>, width)

\* what titles holds for the item: no entry, None, or a text
TitleEntries ==
    {[kind |-> "absent", text |-> <<>>], [kind |-> "none", text |-> <<>>]}
      \cup {[kind |-> "text", text |-> t] : t \in Titles}

\* titles.get(book_id, book_id)
TitlesGet(entry, book_id) ==
    IF entry.kind = "absent" THEN [kind |-> "text", text |-> book_id] ELSE entry

\* title or ""
TitleOrEmpty(title) == IF title.kind = "none" THEN <<>> ELSE title.text

Min(a, b) == IF a <= b THEN a ELSE b

InitFallback ==
    /\ InitCache
    /\ bk = BkOff
    /\ pl = {}
    /\ LayOff /\ FormOff /\ AuthOff
    /\ \E id \in BookIdText, e \in TitleEntries :
         fb = [pc |-> "start", id |-> id, entry |-> e, drawn |-> <<>>]

\* cover is None: title = titles.get(book_id, book_id);
\* lines = textwrap.wrap(title or "", width=16); ty2 = 8;
\* for ln in lines[:6]: d2.text((6, ty2), ln, ...); ty2 += 20
FallbackTile ==
    /\ fb.pc = "start"
    /\ LET title == TitlesGet(fb.entry, fb.id)
           lines == Wrap(TitleOrEmpty(title), 16)
       IN  fb' = [fb EXCEPT
                    !.pc = "done",
                    !.drawn = [i \in 1..Min(6, Len(lines)) |->
                                 [xy |-> <<6, 8 + 20 * (i - 1)>>, text |-> lines[i]]]]
    /\ UNCHANGED <<dirs, files, writer, pc, req, order, tiles, fc, prev, outcome,
                   nreq, bk, pl, netlog, lay, fm, au>>

NextFallback == FallbackTile

SpecFallback == InitFallback /\ [][NextFallback]_vars

\* C18: the text drawn on a fallback tile is the item's title, or the itemId
\* when titles has no entry for the item or an empty one, wrapped at 16
\* characters per line; exactly the first min(6, n) of its n lines are drawn,
\* in order from the top.
C18_FallbackTextIsTitleOrId ==
    fb.pc = "done" =>
      LET text == IF fb.entry.kind = "text" /\ fb.entry.text # <<>>
                  THEN fb.entry.text ELSE fb.id
          lines == Wrap(text, 16)
          k == Min(6, Len(lines))
      IN  /\ Len(fb.drawn) = k
          /\ \A i \in 1..k :
               /\ fb.drawn[i].text = lines[i]
               /\ Len(fb.drawn[i].text) <= 16
               /\ i < k => fb.drawn[i].xy[2] < fb.drawn[i + 1].xy[2]

(***************************************************************************)
(* SpecAuth: AudibleAuthService (src/auth.py holds the same flow with a    *)
(* module-level dict and ValueError)                                       *)
(***************************************************************************)
Users == Callers
CodeTypes == {"otp", "cvf", "sms"}

\* _auth_file_for: auth_<sha256 of the username>.json under auth_dir (the
\* digest is written with its first 16 digits)
AuthFileFor(username) == <<"auth_", Sha256Hex16(username), ".json">>

NoAuthCall == [op |-> "none", user |-> Null, result |-> Null, login |-> FALSE]

InitAuth ==
    /\ InitCache
    /\ bk = BkOff
    /\ pl = {}
    /\ LayOff /\ FormOff /\ FallbackOff
    /\ au = [pc |-> "on", pending |-> {}, sessions |-> {},
             armed |-> [u \in Users |-> FALSE],
             last |-> NoAuthCall, prevcall |-> NoAuthCall, n |-> 0]

AuthRest == <<dirs, files, writer, pc, req, order, tiles, fc, prev, outcome, nreq,
              bk, pl, netlog, lay, fm, fb>>

\* the call is over: its result is what the caller sees
AuthCalled(a, op, username, result, login) ==
    [a EXCEPT !.n = a.n + 1, !.prevcall = a.last,
              !.last = [op |-> op, user |-> username, result |-> result,
                        login |-> login]]

\* start_auth: a stored session is loaded (from_file can raise), else the
\* credentials are kept for the verification step
StartAuth(username) ==
    /\ au.pc = "on" /\ au.n < MaxAuthCalls
    /\ IF AuthFileFor(username) \in au.sessions
       THEN \E result \in {"client", "raised"} :
              au' = AuthCalled(au, "start_auth", username, result, FALSE)
       ELSE au' = AuthCalled([au EXCEPT !.pending = @ \cup {username},
                                       !.armed[username] = TRUE],
                             "start_auth", username, "verification_required", FALSE)
    /\ UNCHANGED AuthRest

\* a complete_auth that forgets the pending login only after a login that
\* succeeded
MutCompleteAuth(username, code_type) ==
    /\ au.pc = "on" /\ au.n < MaxAuthCalls
    /\ LET armed == [au EXCEPT !.armed[username] = FALSE]
           popped == [armed EXCEPT !.pending = @ \ {username}]
       IN  IF username \notin au.pending
           THEN au' = AuthCalled(armed, "complete_auth", username,
                                 "PendingLoginNotFound", FALSE)
           ELSE IF code_type \in {"otp", "cvf"}
           THEN \/ au' = AuthCalled(armed, "complete_auth", username,
                                    "LoginRaised", TRUE)
                \/ au' = AuthCalled(popped, "complete_auth", username,
                                    "WriteRaised", TRUE)
                \/ au' = AuthCalled([popped EXCEPT !.sessions =
                                                    @ \cup {AuthFileFor(username)}],
                                    "complete_auth", username, "client", TRUE)
           ELSE au' = AuthCalled(armed, "complete_auth", username,
                                 "ValueError", FALSE)
    /\ UNCHANGED AuthRest

\* complete_auth: raise without pending login; pop it; log in with the code
\* (from_login can raise); raise ValueError for another code_type;
\* auth.to_file(auth_file) (can raise); return the client
CompleteAuth(username, code_type) ==
    /\ au.pc = "on" /\ au.n < MaxAuthCalls
    /\ LET armed == [au EXCEPT !.armed[username] = FALSE]
           popped == [armed EXCEPT !.pending = @ \ {username}]
       IN  IF username \notin au.pending
           THEN au' = AuthCalled(armed, "complete_auth", username,
                                 "PendingLoginNotFound", FALSE)
           ELSE IF code_type \in {"otp", "cvf"}
           THEN \/ au' = AuthCalled(popped, "complete_auth", username,
                                    "LoginRaised", TRUE)
                \/ au' = AuthCalled(popped, "complete_auth", username,
                                    "WriteRaised", TRUE)
                \/ au' = AuthCalled([popped EXCEPT !.sessions =
                                                    @ \cup {AuthFileFor(username)}],
                                    "complete_auth", username, "client", TRUE)
           ELSE au' = AuthCalled(popped, "complete_auth", username,
                                 "ValueError", FALSE)
    /\ UNCHANGED AuthRest

\* get_client_if_authenticated: None without session file, else the client
GetClient(username) ==
    /\ au.pc = "on" /\ au.n < MaxAuthCalls
    /\ IF AuthFileFor(username) \in au.sessions
       THEN \E result \in {"client", "raised"} :
              au' = AuthCalled(au, "get_client", username, result, FALSE)
       ELSE au' = AuthCalled(au, "get_client", username, Null, FALSE)
    /\ UNCHANGED AuthRest

\* a sign_out that drops the pending login as well
MutSignOut(username) ==
    /\ au.pc = "on" /\ au.n < MaxAuthCalls
    /\ LET a == [au EXCEPT !.pending = @ \ {username}]
       IN  IF AuthFileFor(username) \in au.sessions
           THEN \/ au' = AuthCalled([a EXCEPT !.sessions = @ \ {AuthFileFor(username)}],
                                    "sign_out", username, "True", FALSE)
                \/ au' = AuthCalled(a, "sign_out", username, "False", FALSE)
           ELSE au' = AuthCalled(a, "sign_out", username, "False", FALSE)
    /\ UNCHANGED AuthRest

\* sign_out: os.remove of the session file (False when it fails or there is none)
SignOut(username) ==
    /\ au.pc = "on" /\ au.n < MaxAuthCalls
    /\ IF AuthFileFor(username) \in au.sessions
       THEN \/ au' = AuthCalled([au EXCEPT !.sessions = @ \ {AuthFileFor(username)}],
                                "sign_out", username, "True", FALSE)
            \/ au' = AuthCalled(au, "sign_out", username, "False", FALSE)
       ELSE au' = AuthCalled(au, "sign_out", username, "False", FALSE)
    /\ UNCHANGED AuthRest

NextAuth ==
    \E u \in Users :
      \/ StartAuth(u)
      \/ \E ct \in CodeTypes : CompleteAuth(u, ct)
      \/ GetClient(u)
      \/ SignOut(u)

SpecAuth == InitAuth /\ [][NextAuth]_vars

\* this step is a complete_auth call for username
CompletesAuth(username) ==
    /\ au'.n = au.n + 1
    /\ au'.last.op = "complete_auth"
    /\ au'.last.user = username

\* C15: complete_auth raises PendingLoginNotFound exactly when the username
\* has no pending login, that is unless a start_auth for it returned
\* 'verification_required' and no complete_auth for it has run since; the
\* call then attempts no login, writes no session file and changes nothing.
C15_NoPendingLoginRaises ==
    [][\A u \in Users : CompletesAuth(u) =>
         /\ (u \in au.pending) <=> au.armed[u]
         /\ (au'.last.result = "PendingLoginNotFound") <=> ~au.armed[u]
         /\ ~au.armed[u] =>
              /\ ~au'.last.login
              /\ au'.sessions = au.sessions
              /\ au'.pending = au.pending]_vars

\* alice completes without having started while bob's login is pending
C15_Witness ==
    /\ au.pc = "on"
    /\ au.last = [op |-> "complete_auth", user |-> "alice",
                  result |-> "PendingLoginNotFound", login |-> FALSE]
    /\ au.prevcall.op = "start_auth" /\ au.prevcall.user = "bob"
    /\ au.pending = {"bob"}
    /\ au.sessions = {}

\* C20: after any complete_auth call for a username that had a pending
\* login, failed or not, the username has no pending login and no session
\* file has been written, and a complete_auth that follows at once raises
\* PendingLoginNotFound.
C20_PendingConsumedNoSession ==
    [][\A u \in Users : CompletesAuth(u) =>
         /\ u \in au.pending =>
              /\ u \notin au'.pending
              /\ au'.sessions = au.sessions
         /\ (au.last.op = "complete_auth" /\ au.last.user = u) =>
              au'.last.result = "PendingLoginNotFound"]_vars

\* C20, amended: after any complete_auth call for a username that had a
\* pending login the username has no pending login; a call that failed
\* (code_type neither otp nor cvf, the login or the write of the session
\* raised) has written no session file, a call that succeeded has written
\* the username's; a complete_auth that follows at once raises
\* PendingLoginNotFound.
C20_PendingConsumedSessionOnSuccess ==
    [][\A u \in Users : CompletesAuth(u) =>
         /\ u \in au.pending =>
              /\ u \notin au'.pending
              /\ au'.last.result # "client" => au'.sessions = au.sessions
              /\ au'.last.result = "client" =>
                   au'.sessions = au.sessions \cup {AuthFileFor(u)}
              /\ au'.last.login <=> au'.last.result # "ValueError"
         /\ (au.last.op = "complete_auth" /\ au.last.user = u) =>
              au'.last.result = "PendingLoginNotFound"]_vars

\* alice's complete_auth failed on the code_type and her next one finds no
\* pending login and no session file
C20_Witness ==
    /\ au.pc = "on"
    /\ au.prevcall = [op |-> "complete_auth", user |-> "alice",
                      result |-> "ValueError", login |-> FALSE]
    /\ au.last = [op |-> "complete_auth", user |-> "alice",
                  result |-> "PendingLoginNotFound", login |-> FALSE]
    /\ "alice" \notin au.pending
    /\ AuthFileFor("alice") \notin au.sessions

====
